---- MODULE Spec2Model ----
(***************************************************************************)
(* Model of peloton's MergeJoinExecutor                                    *)
(* (src/backend/executor/merge_join_executor.cpp).                         *)
(*                                                                         *)
(* A logical tile is a record [vals, position_lists]: vals[r+1] is the     *)
(* tuple of values the join-clause expressions see at logical row r, and   *)
(* position_lists[c+1][r+1] is the row identifier column list c holds at   *)
(* row r.  schema[c+1] is column c: the position list it reads             *)
(* (position_list_idx) and the column of the base tile it shows.           *)
(* Row indices are 0-based as in the code.  Join clause i compares         *)
(* value i of the left tuple with value i of the right tuple.              *)
(*                                                                         *)
(* DExecute calls itself (line 238).  Only the locals of the innermost     *)
(* active invocation are modelled: a suspended invocation never reads its  *)
(* locals again (lines 238-241), so `depth` is all that is kept of it.     *)
(*                                                                         *)
(* The module also models TupleTransformer::GetPelotonTuple and GetValue   *)
(* (src/backend/bridge/dml/tuple/tuple_transformer.cpp): a slot is the     *)
(* sequence of its attributes, each [isnull, datum, atttypid], and the     *)
(* Peloton tuple is the sequence of its column values.                     *)
(***************************************************************************)
EXTENDS Integers, Sequences, FiniteSets, TLC

\* ---- bounds of the model
MaxClauses == 2
MaxKey == 2
MaxRows == 2
MaxTiles == 2
MaxLists == 2
MaxAtts == 3

VARIABLES
  pc,               \* position of the innermost active invocation / the consumer
  depth,            \* number of active (nested) DExecute invocations
  join_clause_,     \* number of join clauses (join_clause_.size())
  predicate_,       \* 0: nullptr; k > 0: predicate that IsFalse iff left anchor value 1 = k
  remaining,        \* remaining[c]: tiles child c has still to produce (c = 0 left, 1 right)
  child_out,        \* child_out[c]: the tile child c holds for GetOutput, or NoTile
  log,              \* children Execute()d in the current fetch cycle, in order
  left_tile, right_tile,
  position_lists,   \* the output position lists under construction
  output_tile_schema, \* the schema set on the output tile, line 91
  left_start_row, left_end_row, right_start_row, right_end_row,
  output_,          \* the tile installed by SetOutput, or NoTile
  installed,        \* SetOutput was called during the current top-level invocation
  child_failed,     \* a child's Execute returned false during the current top-level invocation
  shared,           \* some tile pair fetched during the current top-level invocation
                    \* holds a left row and a right row equal on every join clause
  pairs,            \* tile pairs fetched during the current top-level invocation
  retval,           \* value being returned by the innermost invocation
  result,           \* what the last top-level invocation returned: "none", "true", "false"
  slot,             \* the Postgres tuple: slot[i+1] is attribute i with its descriptor
  peloton_tuple,    \* the Peloton tuple under construction (`tuple`): column i is [i+1]
  att_itr           \* the loop variable of GetPelotonTuple

vars == <<pc, depth, join_clause_, predicate_, remaining, child_out, log, left_tile,
          right_tile, position_lists, output_tile_schema,
          left_start_row, left_end_row, right_start_row, right_end_row, output_, installed, child_failed,
          shared, pairs, retval, result, slot, peloton_tuple, att_itr>>

\* ---- data
NoTile == [vals |-> <<>>, position_lists |-> <<>>, schema |-> <<>>]

Keys == 1..MaxKey

Row == [1..MaxClauses -> Keys]

RowSeqs == UNION {[1..n -> Row] : n \in 0..MaxRows}

\* a tile a child can produce: lists position lists, each the identity on rows,
\* and lists + 1 columns, the first two reading position list 0
MkTile(v, lists) ==
  [vals |-> v,
   position_lists |-> [c \in 1..lists |-> [r \in 1..Len(v) |-> r - 1]],
   schema |-> [c \in 1..(lists + 1) |->
                 [position_list_idx |-> IF c = 1 THEN 0 ELSE c - 2,
                  origin_column_id |-> c - 1]]]

\* lines 83-85 without the addition: the right columns keep their indices
ShiftSchemaNone(schema, n) == schema

\* lines 83-85: every column of the copied schema has n added to its
\* position_list_idx
ShiftSchema(schema, n) ==
  [c \in 1..Len(schema) |->
     [schema[c] EXCEPT !.position_list_idx = @ + n]]

\* AbstractJoinExecutor::BuildSchema, called at line 88: the left columns
\* followed by the right columns
BuildSchema(left_schema, right_schema) == left_schema \o right_schema

Tiles == {MkTile(v, n) : v \in RowSeqs, n \in 1..MaxLists}

\* LogicalTile::GetTupleCount
GetTupleCount(tile) == Len(tile.vals)

\* Value::Compare
Compare(a, b) == IF a < b THEN -1 ELSE IF a > b THEN 1 ELSE 0

\* clause.left_ / clause.right_ ->Evaluate: clause i reads value i of the tuple
\* of its own side
Evaluate(is_left, i, tuple) == tuple[i]

\* ---- MergeJoinExecutor::Advance, lines 249-278
\* the clause loop of lines 262-272: TRUE iff it leaves through the break
ClauseBreak(tile, this_row, end_row, is_left) ==
  \E i \in 1..join_clause_ :
    Compare(Evaluate(is_left, i, tile.vals[this_row + 1]),
            Evaluate(is_left, i, tile.vals[end_row + 1])) # 0

RECURSIVE AdvanceLoopPastEnd(_, _, _, _)
\* AdvanceLoop with the loop test of line 257 off by one (end_row <= tuple_count)
AdvanceLoopPastEnd(tile, end_row, this_row, is_left) ==
  IF end_row <= GetTupleCount(tile)
    THEN AdvanceLoopPastEnd(tile, end_row + 1, end_row + 1, is_left)
    ELSE end_row

RECURSIVE AdvanceLoop(_, _, _, _)
\* the while loop of lines 257-276; the break of line 270 leaves only the
\* clause loop, so end_row++ (line 274) runs whatever the comparison gave
AdvanceLoop(tile, end_row, this_row, is_left) ==
  IF end_row < GetTupleCount(tile)
    THEN IF ClauseBreak(tile, this_row, end_row, is_left)
           THEN AdvanceLoop(tile, end_row + 1, end_row + 1, is_left)
           ELSE AdvanceLoop(tile, end_row + 1, end_row + 1, is_left)
    ELSE end_row

\* Advance without the early return of lines 254-255
AdvanceNoGuard(tile, start_row, is_left) ==
  AdvanceLoop(tile, start_row + 1, start_row, is_left)

Advance(tile, start_row, is_left) ==
  IF start_row >= GetTupleCount(tile)
    THEN start_row
    ELSE AdvanceLoop(tile, start_row + 1, start_row, is_left)

\* ---- the scan of DExecute, lines 134-217
RECURSIVE ClauseLoopSwapped(_, _, _)
\* ClauseLoop with the two branches of lines 150 and 156 exchanged
ClauseLoopSwapped(i, left_tuple, right_tuple) ==
  IF i > join_clause_
    THEN 0
    ELSE LET ret == Compare(Evaluate(TRUE, i, left_tuple),
                            Evaluate(FALSE, i, right_tuple))
         IN  IF ret # 0 THEN 0 - ret
                        ELSE ClauseLoopSwapped(i + 1, left_tuple, right_tuple)

RECURSIVE ClauseLoop(_, _, _)
\* the clause loop of lines 143-164 from clause i on: the sign of the first
\* comparison that is not 0, or 0 when the loop runs to its end
ClauseLoop(i, left_tuple, right_tuple) ==
  IF i > join_clause_
    THEN 0
    ELSE LET ret == Compare(Evaluate(TRUE, i, left_tuple),
                            Evaluate(FALSE, i, right_tuple))
         IN  IF ret # 0 THEN ret ELSE ClauseLoop(i + 1, left_tuple, right_tuple)

\* the flag `equal` when the clause loop is over: set false at line 140 and
\* assigned only false (lines 154, 160)
EqualFlag(ret) == FALSE

\* predicate_->Evaluate(&left_tuple, &right_tuple, ...).IsFalse(), line 176
PredicateIsFalse(left_tuple, right_tuple) ==
  /\ MaxClauses >= 1
  /\ left_tuple[1] = predicate_

\* the row pairs of lines 187-190, left row major, right row minor
CartesianRows(ls, le, rs, re) ==
  IF le <= ls \/ re <= rs
    THEN <<>>
    ELSE [k \in 1..((le - ls) * (re - rs)) |->
            <<ls + ((k - 1) \div (re - rs)), rs + ((k - 1) % (re - rs))>>]

\* lines 194-208: every output list gets one entry per row pair, the left
\* lists from the left tile's lists, the right lists from the right tile's
Expand(lists, ltile, rtile, rows) ==
  LET lcount == Len(ltile.position_lists)
  IN  [c \in 1..Len(lists) |->
         lists[c] \o
         [k \in 1..Len(rows) |->
            IF c <= lcount
              THEN ltile.position_lists[c][rows[k][1] + 1]
              ELSE rtile.position_lists[c - lcount][rows[k][2] + 1]]]

\* ---- the join key of a row, and what the inputs hold
\* the composite key of a tuple: its values under the join clauses, in order
KeyOf(tuple) == [i \in 1..join_clause_ |-> tuple[i]]

JoinKeys == [1..join_clause_ -> Keys]

\* the rows of a tile whose key is k (0-based)
Group(tile, k) == {r \in 0..(GetTupleCount(tile) - 1) : KeyOf(tile.vals[r + 1]) = k}

\* some left row and some right row are equal on every join clause
SharesKey(ltile, rtile) ==
  \E k \in JoinKeys : Group(ltile, k) # {} /\ Group(rtile, k) # {}

RECURSIVE KeyLess(_, _, _)
\* composite key a sorts strictly before b, from clause i on
KeyLess(a, b, i) ==
  /\ i <= join_clause_
  /\ \/ a[i] < b[i]
     \/ a[i] = b[i] /\ KeyLess(a, b, i + 1)

\* the tile is sorted ascending on the composite join key
IsSorted(tile) ==
  \A r \in 1..(GetTupleCount(tile) - 1) :
    ~KeyLess(tile.vals[r + 1], tile.vals[r], 1)

Init ==
  /\ pc = "new"
  /\ depth = 0
  /\ join_clause_ = 0
  /\ predicate_ = 0
  /\ remaining \in [{0, 1} -> 0..MaxTiles]
  /\ child_out = [c \in {0, 1} |-> NoTile]
  /\ log = <<>>
  /\ left_tile = NoTile
  /\ right_tile = NoTile
  /\ position_lists = <<>>
  /\ output_tile_schema = <<>>
  /\ left_start_row = 0
  /\ left_end_row = 0
  /\ right_start_row = 0
  /\ right_end_row = 0
  /\ output_ = NoTile
  /\ installed = FALSE
  /\ child_failed = FALSE
  /\ shared = FALSE
  /\ pairs = 0
  /\ retval = FALSE
  /\ result = "none"
  /\ slot = <<>>
  /\ peloton_tuple = <<>>
  /\ att_itr = 0

locals == <<left_tile, right_tile, position_lists, output_tile_schema, left_start_row, left_end_row,
            right_start_row, right_end_row>>

ghost == <<installed, child_failed, shared, pairs>>

\* the state of TupleTransformer::GetPelotonTuple
tvars == <<slot, peloton_tuple, att_itr>>

\* MergeJoinExecutor::DInit, lines 34-44
DInit ==
  /\ pc = "new"
  /\ \E status \in BOOLEAN, n \in 0..MaxClauses, p \in 0..MaxKey :
       IF status
         THEN /\ join_clause_' = n
              /\ predicate_' = p
              /\ pc' = "idle"
         ELSE /\ pc' = "init_failed"
              /\ UNCHANGED <<join_clause_, predicate_>>
  /\ UNCHANGED <<depth, remaining, child_out, log, locals, output_, ghost, retval, result>>
  /\ UNCHANGED tvars

\* the consumer calls Execute() -> DExecute(), line 51; it takes the previous
\* output first and calls again only while the operator has not reported false
Execute ==
  /\ pc = "idle"
  /\ result # "false"
  /\ pc' = "fetch_right"
  /\ depth' = 1
  /\ output_' = NoTile
  /\ installed' = FALSE
  /\ child_failed' = FALSE
  /\ shared' = FALSE
  /\ pairs' = 0
  /\ log' = <<>>
  /\ result' = "none"
  /\ left_tile' = NoTile
  /\ right_tile' = NoTile
  /\ position_lists' = <<>>
  /\ output_tile_schema' = <<>>
  /\ left_start_row' = 0
  /\ left_end_row' = 0
  /\ right_start_row' = 0
  /\ right_end_row' = 0
  /\ UNCHANGED <<join_clause_, predicate_, remaining, child_out, retval>>
  /\ UNCHANGED tvars

\* children_[c]->Execute(): a tile while the child has one, else false
ChildExecute(c, ok, tile) ==
  /\ ok = (remaining[c] > 0)
  /\ remaining' = IF ok THEN [remaining EXCEPT ![c] = @ - 1] ELSE remaining
  /\ child_out' = IF ok THEN [child_out EXCEPT ![c] = tile] ELSE child_out
  /\ log' = Append(log, c)

\* lines 54-59
FetchRight ==
  /\ pc = "fetch_right"
  /\ \E ok \in BOOLEAN, tile \in Tiles :
       /\ ChildExecute(1, ok, tile)
       /\ IF ok
            THEN /\ pc' = "fetch_left"
                 /\ UNCHANGED <<retval, child_failed>>
            ELSE /\ pc' = "return"
                 /\ retval' = FALSE
                 /\ child_failed' = TRUE
  /\ UNCHANGED <<depth, join_clause_, predicate_, locals, output_, installed,
                 shared, pairs, result>>
  /\ UNCHANGED tvars

\* lines 63-68
FetchLeft ==
  /\ pc = "fetch_left"
  /\ \E ok \in BOOLEAN, tile \in Tiles :
       /\ ChildExecute(0, ok, tile)
       /\ IF ok
            THEN /\ pc' = "build"
                 /\ UNCHANGED <<retval, child_failed>>
            ELSE /\ pc' = "return"
                 /\ retval' = FALSE
                 /\ child_failed' = TRUE
  /\ UNCHANGED <<depth, join_clause_, predicate_, locals, output_, installed,
                 shared, pairs, result>>
  /\ UNCHANGED tvars

\* lines 70-132: take both tiles, make the empty output lists, find the first
\* group of each side
BuildOutput ==
  /\ pc = "build"
  /\ left_tile' = child_out[0]
  /\ right_tile' = child_out[1]
  /\ child_out' = [c \in {0, 1} |-> NoTile]
  /\ output_tile_schema' =
       BuildSchema(child_out[0].schema,
                   ShiftSchema(child_out[1].schema,
                               Len(child_out[0].position_lists)))
  /\ position_lists' =
       [c \in 1..(Len(child_out[0].position_lists)
                  + Len(child_out[1].position_lists)) |-> <<>>]
  /\ left_start_row' = 0
  /\ right_start_row' = 0
  /\ left_end_row' = Advance(child_out[0], 0, TRUE)
  /\ right_end_row' = Advance(child_out[1], 0, FALSE)
  /\ pairs' = pairs + 1
  /\ shared' = (shared \/ SharesKey(child_out[0], child_out[1]))
  /\ pc' = "while"
  /\ UNCHANGED <<depth, join_clause_, predicate_, remaining, log, output_,
                 installed, child_failed, retval, result>>
  /\ UNCHANGED tvars

\* line 134
WhileTest ==
  /\ pc = "while"
  /\ pc' = IF left_end_row > left_start_row /\ right_end_row > right_start_row
             THEN "body" ELSE "check"
  /\ UNCHANGED <<depth, join_clause_, predicate_, remaining, child_out, log,
                 locals, output_, ghost, retval, result>>
  /\ UNCHANGED tvars

\* lines 171-216: the predicate check, the cartesian product and the advance
\* of both groups
MatchedPair(left_tuple, right_tuple) ==
  LET skip == predicate_ # 0 /\ PredicateIsFalse(left_tuple, right_tuple)
      ls == IF skip THEN left_end_row ELSE left_start_row
      le == IF skip THEN Advance(left_tile, left_end_row, TRUE) ELSE left_end_row
      rs == IF skip THEN right_end_row ELSE right_start_row
      re == IF skip THEN Advance(right_tile, right_end_row, FALSE) ELSE right_end_row
  IN  /\ position_lists' =
           Expand(position_lists, left_tile, right_tile, CartesianRows(ls, le, rs, re))
      /\ left_start_row' = le
      /\ left_end_row' = Advance(left_tile, le, TRUE)
      /\ right_start_row' = re
      /\ right_end_row' = Advance(right_tile, re, FALSE)

\* one iteration of the scan loop, lines 136-216
LoopBody ==
  /\ pc = "body"
  /\ LET left_tuple == left_tile.vals[left_start_row + 1]
         right_tuple == right_tile.vals[right_start_row + 1]
         ret == ClauseLoop(1, left_tuple, right_tuple)
     IN  IF ret < 0
           THEN /\ left_start_row' = left_end_row
                /\ left_end_row' = Advance(left_tile, left_end_row, TRUE)
                /\ UNCHANGED <<right_start_row, right_end_row, position_lists>>
           ELSE IF ret > 0
             THEN /\ right_start_row' = right_end_row
                  /\ right_end_row' = Advance(right_tile, right_end_row, FALSE)
                  /\ UNCHANGED <<left_start_row, left_end_row, position_lists>>
             ELSE IF ~EqualFlag(ret)
               THEN UNCHANGED <<left_start_row, left_end_row, right_start_row,
                                right_end_row, position_lists>>
               ELSE MatchedPair(left_tuple, right_tuple)
  /\ pc' = "while"
  /\ UNCHANGED <<depth, join_clause_, predicate_, remaining, child_out, log,
                 left_tile, right_tile, output_tile_schema, output_, ghost,
                 retval, result>>
  /\ UNCHANGED tvars

\* lines 227-239: install the output and return true, or call DExecute again
CheckOutput ==
  /\ pc = "check"
  /\ IF Len(position_lists[1]) > 0
       THEN /\ output_' = [vals |-> <<>>, position_lists |-> position_lists,
                            schema |-> output_tile_schema]
            /\ installed' = TRUE
            /\ retval' = TRUE
            /\ pc' = "return"
            /\ UNCHANGED <<depth, log, locals>>
       ELSE /\ depth' = depth + 1
            /\ pc' = "fetch_right"
            /\ log' = <<>>
            /\ left_tile' = NoTile
            /\ right_tile' = NoTile
            /\ position_lists' = <<>>
            /\ output_tile_schema' = <<>>
            /\ left_start_row' = 0
            /\ left_end_row' = 0
            /\ right_start_row' = 0
            /\ right_end_row' = 0
            /\ UNCHANGED <<output_, installed, retval>>
  /\ UNCHANGED <<join_clause_, predicate_, remaining, child_out, child_failed,
                 shared, pairs, result>>
  /\ UNCHANGED tvars

\* a nested invocation returns to line 238; its value is dropped and the
\* caller returns true, line 241
ReturnToCaller ==
  /\ pc = "return"
  /\ depth > 1
  /\ depth' = depth - 1
  /\ retval' = TRUE
  /\ UNCHANGED <<pc, join_clause_, predicate_, remaining, child_out, log, locals,
                 output_, ghost, result>>
  /\ UNCHANGED tvars

\* the outermost invocation returns to the consumer
ReturnToConsumer ==
  /\ pc = "return"
  /\ depth = 1
  /\ depth' = 0
  /\ pc' = "idle"
  /\ result' = IF retval THEN "true" ELSE "false"
  /\ UNCHANGED <<join_clause_, predicate_, remaining, child_out, log, locals,
                 output_, ghost, retval>>
  /\ UNCHANGED tvars

Next ==
  \/ DInit
  \/ Execute
  \/ FetchRight
  \/ FetchLeft
  \/ BuildOutput
  \/ WhileTest
  \/ LoopBody
  \/ CheckOutput
  \/ ReturnToCaller
  \/ ReturnToConsumer

Spec == Init /\ [][Next]_vars

\* ---- Advance on its own: any tile, any start row up to one past the row
\* count, any number of clauses, both sides
AdvInit ==
  /\ pc = "advance"
  /\ depth = 0
  /\ join_clause_ \in 0..MaxClauses
  /\ predicate_ = 0
  /\ remaining = [c \in {0, 1} |-> 0]
  /\ child_out = [c \in {0, 1} |-> NoTile]
  /\ log = <<>>
  /\ left_tile \in {MkTile(v, 1) : v \in RowSeqs}
  /\ right_tile = left_tile
  /\ position_lists = <<>>
  /\ output_tile_schema = <<>>
  /\ left_start_row \in 0..(MaxRows + 1)
  /\ left_end_row = 0
  /\ right_start_row = left_start_row
  /\ right_end_row = 0
  /\ output_ = NoTile
  /\ installed = FALSE
  /\ child_failed = FALSE
  /\ shared = FALSE
  /\ pairs = 0
  /\ retval = FALSE
  /\ result = "none"
  /\ slot = <<>>
  /\ peloton_tuple = <<>>
  /\ att_itr = 0

\* a call of Advance for each side, lines 249-278
AdvanceCall ==
  /\ pc = "advance"
  /\ left_end_row' = Advance(left_tile, left_start_row, TRUE)
  /\ right_end_row' = Advance(right_tile, right_start_row, FALSE)
  /\ pc' = "advanced"
  /\ UNCHANGED <<depth, join_clause_, predicate_, remaining, child_out, log,
                 left_tile, right_tile, position_lists, output_tile_schema,
                 left_start_row, right_start_row, output_, ghost, retval, result>>
  /\ UNCHANGED tvars

AdvanceSpec == AdvInit /\ [][AdvanceCall]_vars

\* ---- TupleTransformer (tuple_transformer.cpp)
\* the attribute types of the model; "other" is a type GetValue has no case for
PostgresValueTypes ==
  {"POSTGRES_VALUE_TYPE_SMALLINT", "POSTGRES_VALUE_TYPE_INTEGER",
   "POSTGRES_VALUE_TYPE_TEXT", "other"}

\* the datums of the model: machine words; for a text attribute the word is
\* the address of a varlena
Datums == {1, 32768, 65537}

\* DatumGetInt16: the low 16 bits of the word as a signed number
DatumGetInt16(datum) ==
  LET low == datum % 65536
  IN  IF low >= 32768 THEN low - 65536 ELSE low

\* DatumGetInt32: the low 32 bits of the word as a signed number; every datum
\* of the model is below 2^31
DatumGetInt32(datum) == datum

\* the 4-byte varlena header, lines 60-69
VARHDRSZ == 4

\* the varlena at an address: its size (header included) and the bytes after
\* the header
VARSIZE(ptr) == VARHDRSZ + (ptr % 3)

VARDATA(ptr) == <<"a", "b", "c">>

\* a default-constructed Value, line 33
InvalidValue == [type |-> "VALUE_TYPE_INVALID", val |-> 0]

\* TupleTransformer::GetValue, lines 32-120
GetValue(datum, atttypid) ==
  CASE atttypid = "POSTGRES_VALUE_TYPE_SMALLINT" ->
         [type |-> "VALUE_TYPE_SMALLINT", val |-> DatumGetInt16(datum)]
    [] atttypid = "POSTGRES_VALUE_TYPE_INTEGER" ->
         [type |-> "VALUE_TYPE_INTEGER", val |-> DatumGetInt32(datum)]
    [] atttypid = "POSTGRES_VALUE_TYPE_TEXT" ->
         [type |-> "VALUE_TYPE_VARCHAR",
          val |-> SubSeq(VARDATA(datum), 1, VARSIZE(datum) - VARHDRSZ)]
    [] OTHER -> InvalidValue

\* tuple_desc->natts, line 219
natts == Len(slot)

\* the slots of the model
Attributes == [isnull : BOOLEAN, datum : Datums, atttypid : PostgresValueTypes]

\* the state at line 226, before the first iteration: any slot of up to
\* MaxAtts attributes and a freshly allocated tuple (line 223) of as many columns
TupleInit ==
  /\ pc = "tuple_loop"
  /\ slot \in UNION {[1..n -> Attributes] : n \in 0..MaxAtts}
  /\ peloton_tuple = [c \in 1..Len(slot) |-> InvalidValue]
  /\ att_itr = 0
  /\ depth = 0
  /\ join_clause_ = 0
  /\ predicate_ = 0
  /\ remaining = [c \in {0, 1} |-> 0]
  /\ child_out = [c \in {0, 1} |-> NoTile]
  /\ log = <<>>
  /\ left_tile = NoTile
  /\ right_tile = NoTile
  /\ position_lists = <<>>
  /\ output_tile_schema = <<>>
  /\ left_start_row = 0
  /\ left_end_row = 0
  /\ right_start_row = 0
  /\ right_end_row = 0
  /\ output_ = NoTile
  /\ installed = FALSE
  /\ child_failed = FALSE
  /\ shared = FALSE
  /\ pairs = 0
  /\ retval = FALSE
  /\ result = "none"

join_vars == <<depth, join_clause_, predicate_, remaining, child_out, log, locals,
               output_, ghost, retval, result>>

\* one iteration of the loop of lines 226-236: a null attribute is passed
\* over by the loop's ++att_itr; a non-null one is converted, stored at
\* column att_itr, and att_itr is raised by SetValue(att_itr++, ...) and then
\* again by the loop
ConvertAttribute ==
  /\ pc = "tuple_loop"
  /\ att_itr < natts
  /\ LET attr == slot[att_itr + 1]
     IN  IF attr.isnull
           THEN /\ att_itr' = att_itr + 1
                /\ UNCHANGED peloton_tuple
           ELSE /\ peloton_tuple' =
                     [peloton_tuple EXCEPT ![att_itr + 1] =
                        GetValue(attr.datum, attr.atttypid)]
                /\ att_itr' = (att_itr + 1) + 1
  /\ UNCHANGED <<pc, slot, join_vars>>

\* line 238: the loop is over and the tuple is returned
ReturnTuple ==
  /\ pc = "tuple_loop"
  /\ ~(att_itr < natts)
  /\ pc' = "tuple_returned"
  /\ UNCHANGED <<slot, peloton_tuple, att_itr, join_vars>>

TupleNext ==
  \/ ConvertAttribute
  \/ ReturnTuple

TupleSpec == TupleInit /\ [][TupleNext]_vars

\* the scheduling of a single-threaded program: a step that can be taken is taken
FairSpec == Spec /\ WF_vars(Next)

\* ---- what the claims speak of
\* the scan of the fetched pair is over: line 228 is about to read its result
ScanDone == pc = "check"

\* the outermost invocation has returned to the consumer
Returned == pc = "idle" /\ result # "none"

\* output row r (1-based) of the lists under construction pairs these input rows
LeftRowOf(lists, r) == lists[1][r]

RightRowOf(lists, r) == lists[Len(left_tile.position_lists) + 1][r]

\* the output rows pairing two rows of key k
RowsOfKey(lists, k) ==
  {r \in 1..Len(lists[1]) :
     /\ KeyOf(left_tile.vals[LeftRowOf(lists, r) + 1]) = k
     /\ KeyOf(right_tile.vals[RightRowOf(lists, r) + 1]) = k}

\* the exclusive end of the maximal run of rows equal to row start_row on every
\* join clause
RunEnd(tile, start_row) ==
  LET stops == {e \in (start_row + 1)..GetTupleCount(tile) :
                  \/ e = GetTupleCount(tile)
                  \/ KeyOf(tile.vals[e + 1]) # KeyOf(tile.vals[start_row + 1])}
  IN  CHOOSE e \in stops : \A f \in stops : e <= f

\* the anchors of the two current groups are equal on every join clause
AnchorsMatch ==
  KeyOf(left_tile.vals[left_start_row + 1]) = KeyOf(right_tile.vals[right_start_row + 1])

\* C1: for a pair of tiles sorted on the join key, at least one clause and no
\* predicate, the finished scan holds |left group| x |right group| rows for every
\* key, and every row pairs two rows of one key
C1_Completeness ==
  (/\ ScanDone
   /\ join_clause_ >= 1
   /\ predicate_ = 0
   /\ IsSorted(left_tile)
   /\ IsSorted(right_tile))
  => /\ \A k \in JoinKeys :
          Cardinality(RowsOfKey(position_lists, k))
            = Cardinality(Group(left_tile, k)) * Cardinality(Group(right_tile, k))
     /\ \A r \in 1..Len(position_lists[1]) :
          \E k \in JoinKeys : r \in RowsOfKey(position_lists, k)

\* C2: every row of the lists under construction, and of an installed output
\* tile, pairs a left row and a right row equal on every join clause
C2_PairedRowsEqual ==
  /\ pc \in {"while", "body", "check"} =>
       \A r \in 1..Len(position_lists[1]) :
         KeyOf(left_tile.vals[LeftRowOf(position_lists, r) + 1])
           = KeyOf(right_tile.vals[RightRowOf(position_lists, r) + 1])
  /\ installed => output_.position_lists = position_lists

\* the case C2 is about: some output row exists
C2_RowEmitted ==
  \/ installed
  \/ \E c \in 1..Len(position_lists) : position_lists[c] # <<>>

\* C3: when no fetched tile pair holds a key of both sides, the invocation
\* installs no output tile and returns false
C3_Emptiness ==
  (Returned /\ ~shared) => (result = "false" /\ ~installed)

\* C4: the invocation returns true exactly when it installed an output tile with
\* at least one row, and false when a child ran out before any row was produced
C4_ProduceContract ==
  Returned =>
    /\ (result = "true") <=> (installed /\ Len(output_.position_lists[1]) > 0)
    /\ (child_failed /\ ~installed) => result = "false"

\* C5: with zero join clauses the operator fails fast: the scan loop body is
\* never run
C5_ZeroClausesFailFast ==
  join_clause_ = 0 => pc # "body"

\* C6: a scan step on matched anchors with a predicate false on them appends
\* nothing and moves both groups to their next run
C6_PredicateFalseSkips ==
  [][(/\ pc = "body"
      /\ join_clause_ >= 1
      /\ AnchorsMatch
      /\ predicate_ # 0
      /\ PredicateIsFalse(left_tile.vals[left_start_row + 1],
                          right_tile.vals[right_start_row + 1]))
     => (/\ position_lists' = position_lists
         /\ left_start_row' = left_end_row
         /\ right_start_row' = right_end_row)]_vars

\* C7: in every fetch cycle the right child is executed first and the left only
\* after the right gave a tile; an invocation in which a child gave no tile
\* returns false and installs nothing
C7_RightBeforeLeft ==
  /\ log \in {<<>>, <<1>>, <<1, 0>>}
  /\ (Returned /\ child_failed) => (result = "false" /\ ~installed)

\* C8: the consumer is never told true without a tile of at least one row, the
\* rows of the last scanned pair, and is told false only when a child ran out
C8_RetryInvisible ==
  /\ (Returned /\ result = "true") =>
       /\ installed
       /\ output_.position_lists = position_lists
       /\ Len(output_.position_lists[1]) > 0
  /\ (Returned /\ result = "false") => child_failed

\* C9: at most one DExecute invocation is active at any time
C9_IterativeRetry == depth <= 1

\* C10: after Advance, each group ends where the maximal run of rows equal to
\* its anchor on every join clause ends
C10_AdvanceMaximalRun ==
  pc \in {"while", "body", "check"} =>
    /\ left_start_row < GetTupleCount(left_tile)
         => left_end_row = RunEnd(left_tile, left_start_row)
    /\ right_start_row < GetTupleCount(right_tile)
         => right_end_row = RunEnd(right_tile, right_start_row)

\* C11: the output position lists are left_column_count + right_column_count
\* lists of one length
C11_EqualLengths ==
  pc \in {"while", "body", "check"} =>
    /\ Len(position_lists)
         = Len(left_tile.position_lists) + Len(right_tile.position_lists)
    /\ \A c \in 1..Len(position_lists) :
         Len(position_lists[c]) = Len(position_lists[1])

\* C12: the left row indices of the output rows never decrease, and for one
\* left row the right row indices increase strictly
C12_RowOrder ==
  pc \in {"while", "body", "check"} =>
    \A r \in 1..(Len(position_lists[1]) - 1) :
      \/ LeftRowOf(position_lists, r) < LeftRowOf(position_lists, r + 1)
      \/ /\ LeftRowOf(position_lists, r) = LeftRowOf(position_lists, r + 1)
         /\ RightRowOf(position_lists, r) < RightRowOf(position_lists, r + 1)

\* C13: Advance called with start_row >= tuple_count returns start_row, on
\* either side
C13_AdvanceAtEnd ==
  pc = "advanced" =>
    /\ left_start_row >= GetTupleCount(left_tile) => left_end_row = left_start_row
    /\ right_start_row >= GetTupleCount(right_tile) => right_end_row = right_start_row

\* Advance has returned for a start row past a non-empty tile
C13_Witness ==
  /\ pc = "advanced"
  /\ GetTupleCount(left_tile) > 0
  /\ left_start_row > GetTupleCount(left_tile)
  /\ left_end_row = left_start_row
  /\ join_clause_ > 0

\* the first clause, in declared order, on which the two tuples differ; 0 when
\* they are equal on every clause
FirstDiff(left_tuple, right_tuple) ==
  LET diff == {i \in 1..join_clause_ : left_tuple[i] # right_tuple[i]}
  IN  IF diff = {} THEN 0 ELSE CHOOSE i \in diff : \A j \in diff : i <= j

LeftAnchor == left_tile.vals[left_start_row + 1]

RightAnchor == right_tile.vals[right_start_row + 1]

\* C14: a scan step on anchors equal on every clause treats the groups as a
\* matched pair (both move to their next run; without a predicate the product of
\* the two groups is appended); otherwise the first differing clause decides
\* which side advances and nothing is appended
C14_MatchOrFirstDiff ==
  [][pc = "body" =>
       (LET d == FirstDiff(LeftAnchor, RightAnchor)
       IN  IF d = 0
             THEN /\ left_start_row' = left_end_row
                  /\ right_start_row' = right_end_row
                  /\ predicate_ = 0 =>
                       Len(position_lists'[1]) = Len(position_lists[1])
                         + (left_end_row - left_start_row)
                           * (right_end_row - right_start_row)
             ELSE /\ position_lists' = position_lists
                  /\ IF LeftAnchor[d] < RightAnchor[d]
                       THEN left_start_row' = left_end_row
                            /\ right_start_row' = right_start_row
                       ELSE right_start_row' = right_end_row
                            /\ left_start_row' = left_start_row)]_vars

\* C15: a scan step decided by left-key < right-key makes the left group
\* [left_end, Advance(left, left_end)) and leaves the right group alone, the
\* step decided by left-key > right-key does the same for the right group, and
\* neither appends to the output lists
C15_AdvanceOneSide ==
  [][(pc = "body" /\ FirstDiff(LeftAnchor, RightAnchor) # 0) =>
       (LET d == FirstDiff(LeftAnchor, RightAnchor)
       IN  /\ position_lists' = position_lists
           /\ IF LeftAnchor[d] < RightAnchor[d]
                THEN /\ left_start_row' = left_end_row
                     /\ left_end_row' = Advance(left_tile, left_end_row, TRUE)
                     /\ right_start_row' = right_start_row
                     /\ right_end_row' = right_end_row
                ELSE /\ right_start_row' = right_end_row
                     /\ right_end_row' = Advance(right_tile, right_end_row, FALSE)
                     /\ left_start_row' = left_start_row
                     /\ left_end_row' = left_end_row)]_vars

\* a step decided by the second clause (the first is equal) has advanced the
\* left group only
C15_Witness ==
  /\ pc = "while"
  /\ join_clause_ = 2
  /\ left_start_row > 0
  /\ right_start_row = 0
  /\ right_end_row > 0
  /\ left_tile.vals[1][1] = right_tile.vals[1][1]
  /\ left_tile.vals[1][2] < right_tile.vals[1][2]

\* C16: every iteration of the scan loop strictly increases left_start_row or
\* right_start_row
C16_ScanProgress ==
  [][pc = "body" =>
       (\/ left_start_row' > left_start_row
        \/ right_start_row' > right_start_row)]_vars

\* the group boundaries lie inside the tiles, and the anchors are rows of them
BoundsOk ==
  /\ pc \in {"while", "body", "check"} =>
       /\ 0 <= left_start_row /\ left_start_row <= left_end_row
       /\ left_end_row <= GetTupleCount(left_tile)
       /\ 0 <= right_start_row /\ right_start_row <= right_end_row
       /\ right_end_row <= GetTupleCount(right_tile)
  /\ pc = "body" =>
       /\ left_start_row < GetTupleCount(left_tile)
       /\ right_start_row < GetTupleCount(right_tile)

\* a step of the scan leaves each start index where it is or moves it forward
StartsNeverDecrease ==
  pc \in {"while", "body"} =>
    /\ left_start_row' >= left_start_row
    /\ right_start_row' >= right_start_row

\* C17: throughout the scan the boundaries satisfy 0 <= start <= end <= row
\* count on both sides, the anchors are valid rows, and the start indices never
\* decrease
C17_BoundariesValid == []BoundsOk /\ [][StartsNeverDecrease]_vars

\* the scan of a pair is over after the right group moved to the tile boundary
C17_Witness ==
  /\ pc = "check"
  /\ right_start_row > 0
  /\ right_start_row = GetTupleCount(right_tile)
  /\ right_end_row = right_start_row
  /\ left_end_row > left_start_row

C19_EveryAttributeConverted ==
  pc = "tuple_returned" =>
    \A i \in 0..(natts - 1) :
      ~slot[i + 1].isnull =>
        LET value == GetValue(slot[i + 1].datum, slot[i + 1].atttypid)
        IN  /\ peloton_tuple[i + 1].type = value.type
            /\ peloton_tuple[i + 1].val = value.val

====
